---- MODULE Spec2Model ----
(***************************************************************************)
(* A model of the music recommender's core: the Feature Index              *)
(* (src/src/models/index_builder.py), the Similarity Engine                *)
(* (src/src/models/similarity.py) and the Recommendation Orchestrator      *)
(* (src/src/models/recommender.py).                                        *)
(*                                                                         *)
(* Numbers.  The code computes with floating point reals.  The model      *)
(* computes exactly: a matrix entry is a record [num, rad] that stands for *)
(* the real num / sqrt(rad) (what StandardScaler produces from integer raw *)
(* values), and a cosine similarity is a record [sgn, p, q] that stands    *)
(* for sgn * sqrt(p / q), with p / q in lowest terms, so that two scores   *)
(* are equal as reals exactly when the records are equal.                  *)
(*                                                                         *)
(* Rows are numbered from 0, as in the code; Python lists and numpy        *)
(* vectors are sequences.                                                  *)
(***************************************************************************)
EXTENDS Integers, Sequences, FiniteSets, TLC

VARIABLES
    topk,       \* one call of get_top_k_similar: its arguments and its result
    scaler,     \* IndexBuilder.scaler: the StandardScaler and its statistics
    arg,        \* the arguments of the last build_index that returned
    built,      \* what the caller holds of the last build_index that returned
    disk,       \* the three files of output_dir
    saving,     \* where a running save_index is
    loaded,     \* what load_index just returned
    error,      \* the exception the last call raised
    trail,      \* how far the calls so far follow build, save, load
    self,       \* the MusicRecommender: what its constructor loaded
    req,        \* one request to the recommender: its arguments and result
    ties,       \* the order argsort leaves rows of equal score in, if known
    log,        \* a caller's note of one call and of what it returned
    conc,       \* requests running at once: their buffers and positions
    wt          \* apply_weights on its own: its argument and its results

vars ==
    <<topk, scaler, arg, built, disk, saving, loaded, error, trail, self, req,
      ties, log, conc, wt>>

(***************************************************************************)
(* Bounds of the model.                                                    *)
(***************************************************************************)
\* the largest matrix handed to get_top_k_similar on its own
MaxRows == 3

\* the largest table the Feature Index builds, saves and loads
MaxTableRows == 2

\* the largest table handed to build_index on its own
MaxBuildRows == 3

\* the largest catalog the recommender is constructed on
MaxTracks == 3

\* the largest number of recommendations asked for
MaxN == 2

(***************************************************************************)
(* Arithmetic.                                                             *)
(***************************************************************************)
Abs(x) == IF x < 0 THEN -x ELSE x

Sign(x) == IF x < 0 THEN -1 ELSE IF x > 0 THEN 1 ELSE 0

Min(a, b) == IF a <= b THEN a ELSE b

Max(a, b) == IF a >= b THEN a ELSE b

RECURSIVE GCD(_, _)
GCD(a, b) == IF b = 0 THEN Abs(a) ELSE GCD(b, a % b)

LCM(a, b) == (a \div GCD(a, b)) * b

RECURSIVE SeqSum(_)
SeqSum(s) == IF s = <<>> THEN 0 ELSE Head(s) + SeqSum(Tail(s))

RECURSIVE SeqLCM(_)
SeqLCM(s) == IF s = <<>> THEN 1 ELSE LCM(Head(s), SeqLCM(Tail(s)))

\* the real n, as a matrix entry
Whole(n) == [num |-> n, rad |-> 1]

Rows(M) == DOMAIN M

NRows(M) == Cardinality(DOMAIN M)

(***************************************************************************)
(* Python and numpy primitives.                                            *)
(***************************************************************************)
\* the slip of leaving the order as it is
NotReversed(s) == s

\* s[::-1]
Reverse(s) == [i \in 1..Len(s) |-> s[Len(s) + 1 - i]]

\* s[:k]: a negative k counts from the end
SliceTo(s, k) ==
    SubSeq(s, 1, IF k >= 0 THEN Min(k, Len(s)) ELSE Max(Len(s) + k, 0))

\* p1 / q1 < p2 / q2 for naturals p1, p2 and positive q1, q2, by the whole
\* parts and then the remainders, so that no product is formed
RECURSIVE FracLess(_, _, _, _)
FracLess(p1, q1, p2, q2) ==
    IF p1 \div q1 # p2 \div q2 THEN p1 \div q1 < p2 \div q2
    ELSE IF p2 % q2 = 0 THEN FALSE
    ELSE IF p1 % q1 = 0 THEN TRUE
    ELSE FracLess(q2, p2 % q2, q1, p1 % q1)

\* the value sgn * sqrt(p / q) of a score, compared exactly
ScoreLess(a, b) ==
    IF a.sgn # b.sgn THEN a.sgn < b.sgn
    ELSE IF a.sgn = 0 THEN FALSE
    ELSE IF a.sgn = 1 THEN FracLess(a.p, a.q, b.p, b.q)
    ELSE FracLess(b.p, b.q, a.p, a.q)

ScoreLeq(a, b) == ~ScoreLess(b, a)

\* similarities[exclude_indices] = -1
MinusOne == [sgn |-> -1, p |-> 1, q |-> 1]

ZeroScore == [sgn |-> 0, p |-> 0, q |-> 1]

\* the orders of the rows 0..n-1, as sequences
Orders(rows) ==
    LET n == Cardinality(rows)
    IN  {o \in [1..n -> rows] : \A i, j \in 1..n : i # j => o[i] # o[j]}

\* the place of row r in the sequence ties
Place(r) == CHOOSE i \in 1..Len(ties) : ties[i] = r

\* the order o leaves rows of equal score in the order of ties: sorting is
\* a function of the array, so one process sorts one array one way
TiesKept(o, sim) ==
    \A i, j \in 1..Len(o) :
        (i < j /\ ScoreLeq(sim[o[j]], sim[o[i]])) => Place(o[i]) < Place(o[j])

(***************************************************************************)
(* np.argsort(similarities): an order of the rows by ascending score.  The *)
(* default kind is quicksort, which is not stable: numpy promises no       *)
(* order among rows of equal score, and the order it produces depends on   *)
(* the array length and on the build (insertion sort for short runs, SIMD  *)
(* sorting networks where the CPU has them).  Every order that sorts the   *)
(* scores is an outcome.                                                   *)
(***************************************************************************)
ArgSort(sim) ==
    {o \in Orders(DOMAIN sim) :
        /\ \A i, j \in 1..Len(o) : i < j => ScoreLeq(sim[o[i]], sim[o[j]])
        /\ ties # <<>> => TiesKept(o, sim)}

(***************************************************************************)
(* sklearn's cosine_similarity of two vectors whose j-th entries share     *)
(* their rad: dot(u, v) / (|u| |v|), and 0 when either norm is 0           *)
(* (sklearn's normalize leaves a zero row as it is).                       *)
(***************************************************************************)
DotTimes(u, v, L) ==
    SeqSum([j \in 1..Len(u) |-> u[j].num * v[j].num * (L \div u[j].rad)])

Cosine(u, v) ==
    LET L  == SeqLCM([j \in 1..Len(u) |-> u[j].rad])
        uv == DotTimes(u, v, L)
        uu == DotTimes(u, u, L)
        vv == DotTimes(v, v, L)
        g1 == GCD(uv, uu)
        g2 == GCD(uv, vv)
        a  == (Abs(uv) \div g1) * (Abs(uv) \div g2)
        b  == (uu \div g1) * (vv \div g2)
        g  == GCD(a, b)
    IN  IF uu = 0 \/ vv = 0 \/ uv = 0 THEN ZeroScore
        ELSE [sgn |-> Sign(uv), p |-> a \div g, q |-> b \div g]

\* SimilarityComputer.compute_similarity
compute_similarity(query_vector, feature_matrix) ==
    [i \in DOMAIN feature_matrix |-> Cosine(query_vector, feature_matrix[i])]

\* the scores get_top_k_similar ranks: excluded rows are overwritten with -1
\* ("if exclude_indices:" skips None and the empty list)
Excluded(similarities, exclude_indices) ==
    IF exclude_indices # {}
    THEN [i \in DOMAIN similarities |->
            IF i \in exclude_indices THEN MinusOne ELSE similarities[i]]
    ELSE similarities

\* the slip of leaving out [::-1]: the k lowest scores, ascending
TopKIndicesAscending(similarities, k) ==
    {SliceTo(o, k) : o \in ArgSort(similarities)}

\* np.argsort(similarities)[::-1][:k]
TopKIndices(similarities, k) ==
    {SliceTo(Reverse(o), k) : o \in ArgSort(similarities)}

(***************************************************************************)
(* SimilarityComputer.get_top_k_similar: the set of (indices, scores) the  *)
(* call can return.  exclude_indices is the set of the rows listed.        *)
(***************************************************************************)
get_top_k_similar(query_vector, feature_matrix, k, exclude_indices) ==
    LET similarities ==
            Excluded(compute_similarity(query_vector, feature_matrix),
                     exclude_indices)
    IN  {[indices |-> top_k_indices,
          scores  |-> [i \in 1..Len(top_k_indices) |->
                          similarities[top_k_indices[i]]]] :
            top_k_indices \in TopKIndices(similarities, k)}

(***************************************************************************)
(* The Similarity Engine on its own: get_top_k_similar applied once to a   *)
(* query, a matrix, a k and an exclusion list drawn from small sets.       *)
(***************************************************************************)
\* no request in progress on the recommender
IdleReq ==
    [pc |-> "idle", track_id |-> "", n_recommendations |-> 0,
     diversity_filter |-> FALSE, min_popularity |-> <<>>,
     year_range |-> <<>>, features |-> <<>>, raw_query |-> <<>>,
     name_query |-> <<>>, k |-> 0,
     exclude |-> {}, top_k_indices |-> <<>>, top_k_scores |-> <<>>,
     fates |-> <<>>, recommendations |-> <<>>, matches |-> <<>>]

\* a caller that has noted no call yet
NoLog == <<>>

Entries == {-1, 0, 1}

Vectors == {<<Whole(a), Whole(b)>> : a \in Entries, b \in {0, 1}}

\* the query vectors: one along an axis, one off the axes
Queries == {<<Whole(-1), Whole(0)>>, <<Whole(1), Whole(1)>>}

Matrices == UNION {[0..(n - 1) -> Vectors] : n \in 1..MaxRows}

\* the values of k tried on a matrix: negative, zero, up to and past its size
Ks(M) == (-1)..(NRows(M) + 1)

InitTopK ==
    /\ \E M \in Matrices, q \in Queries :
         topk = [pc |-> "ready", query |-> q, matrix |-> M, k |-> 0,
                 exclude |-> {}, indices |-> <<>>, scores |-> <<>>]
    /\ scaler = [fitted |-> FALSE, mean_ |-> <<>>, scale_ |-> <<>>]
    /\ arg = <<>>
    /\ built = <<>>
    /\ disk = [matrix |-> <<>>, index |-> <<>>, config |-> <<>>]
    /\ saving = "idle"
    /\ loaded = <<>>
    /\ error = "none"
    /\ trail = "other"
    /\ self = <<>>
    /\ req = IdleReq
    /\ ties = <<>>
    /\ log = NoLog
    /\ conc = <<>>
    /\ wt = <<>>

TopK ==
    /\ topk.pc = "ready"
    /\ \E k \in Ks(topk.matrix), excl \in SUBSET Rows(topk.matrix) :
         \E out \in get_top_k_similar(topk.query, topk.matrix, k, excl) :
           topk' = [topk EXCEPT !.pc = "returned", !.k = k, !.exclude = excl,
                                !.indices = out.indices,
                                !.scores = out.scores]
    /\ UNCHANGED <<scaler, arg, built, disk, saving, loaded, error, trail, self,
                   req,
                   ties, log, conc, wt>>

NextTopK == TopK

SpecTopK == InitTopK /\ [][NextTopK]_vars

(***************************************************************************)
(* Claims about get_top_k_similar, under SpecTopK.                         *)
(***************************************************************************)
Returned == topk.pc = "returned"

NonIncreasing(scores) ==
    \A i, j \in 1..Len(scores) : i < j => ScoreLeq(scores[j], scores[i])

\* C2: no row listed in exclude_indices is among the indices the call
\* returns, whatever k is (also when k is at least the number of rows).
C2_ExcludedNeverReturned ==
    Returned =>
        \A i \in 1..Len(topk.indices) : topk.indices[i] \notin topk.exclude

\* C4: for k >= 0 the call returns exactly min(k, number of rows) indices,
\* as many scores, and the scores are in non-increasing order.
C4_SizeAndOrder ==
    (Returned /\ topk.k >= 0) =>
        /\ Len(topk.indices) = Min(topk.k, NRows(topk.matrix))
        /\ Len(topk.scores) = Len(topk.indices)
        /\ NonIncreasing(topk.scores)

\* a call with k past the matrix size that returned rows of three different
\* scores
C4_Witness ==
    /\ Returned
    /\ topk.k > NRows(topk.matrix)
    /\ Len(topk.scores) = 3
    /\ ScoreLess(topk.scores[2], topk.scores[1])
    /\ ScoreLess(topk.scores[3], topk.scores[2])

\* C5: of two returned rows with equal score, the one with the smaller row
\* index comes first.
C5_TiesAscendingRow ==
    Returned =>
        \A i, j \in 1..Len(topk.indices) :
            (i < j /\ topk.scores[i] = topk.scores[j])
                => topk.indices[i] < topk.indices[j]

\* C6: a call with k <= 0 returns no index and no score.
C6_NonPositiveKEmpty ==
    (Returned /\ topk.k <= 0) => (topk.indices = <<>> /\ topk.scores = <<>>)

\* the true cosine of row r of the matrix with the query
TrueCosine(r) == compute_similarity(topk.query, topk.matrix)[r]

\* C24: every excluded row is ranked with score -1 and comes after every
\* non-excluded row, also after a non-excluded row whose true cosine is
\* exactly -1: an excluded row that is returned has score -1 and has every
\* non-excluded row returned before it.
C24_ExcludedSortLast ==
    Returned =>
        \A i \in 1..Len(topk.indices) :
            topk.indices[i] \in topk.exclude =>
                /\ topk.scores[i] = MinusOne
                /\ \A r \in Rows(topk.matrix) \ topk.exclude :
                       \E j \in 1..(i - 1) : topk.indices[j] = r

(***************************************************************************)
(* Tables.  A table (a DataFrame with a RangeIndex, as read_csv returns    *)
(* it) is a function from its rows 0..n-1 to records of cells.  A cell     *)
(* that can be missing (NaN, None) is <<>> when missing and <<v>> when v.  *)
(***************************************************************************)
Missing == <<>>

Given(v) == <<v>>

TableColumns ==
    {"id", "name", "artists", "popularity", "release_year",
     "danceability", "loudness"}

Track(id, name, artists, popularity, release_year, danceability, loudness) ==
    [id |-> id, name |-> name, artists |-> artists,
     popularity |-> popularity, release_year |-> release_year,
     danceability |-> danceability, loudness |-> loudness]

T1 == Track("t1", "n1", "A", 50, Given(2000), Given(0), Given(1))

T2 == Track("t2", "n2", "B", 95, Missing, Given(1), Missing)

T3 == Track("t3", "n3", "A", 50, Given(2010), Given(1), Given(1))

T4 == Track("t4", "n4", "A", 95, Given(2000), Given(1), Given(1))

T5 == Track("t5", "n5", "B", 50, Given(2000), Given(0), Given(0))

T6 == Track("t6", "n6", "B", 95, Given(2010), Given(0), Given(1))

\* the tables of n rows over a set of tracks
TablesOf(tracks, n) == [0..(n - 1) -> tracks]

UniqueIds(df) == \A i, j \in DOMAIN df : i # j => df[i].id # df[j].id

\* the seq-th cells of a table's rows, as a sequence in row order
RowSeq(f) == [i \in 1..Cardinality(DOMAIN f) |-> f[i - 1]]

(***************************************************************************)
(* Python dictionaries and JSON.  A dictionary key is its type and its     *)
(* text: the int 0 and the str "0" are different keys.  json.dump writes   *)
(* every key as a string, so json.load returns str keys only; values       *)
(* (ints, strings, None, lists, floats by their shortest exact repr) come  *)
(* back as they were.                                                      *)
(***************************************************************************)
IntKey(i) == [type |-> "int", text |-> ToString(i)]

StrKey(t) == [type |-> "str", text |-> t]

JsonKey(key) == [type |-> "str", text |-> key.text]

\* json.load(json.dump(d)) of a dictionary d whose values are not dictionaries
JsonDict(d) ==
    [key \in {JsonKey(x) : x \in DOMAIN d} |->
        d[CHOOSE x \in DOMAIN d : JsonKey(x) = key]]

\* json.load(json.dump(track_index))
JsonTrackIndex(track_index) ==
    [id_to_idx      |-> JsonDict(track_index.id_to_idx),
     idx_to_id      |-> JsonDict(track_index.idx_to_id),
     track_metadata |-> JsonDict(track_index.track_metadata)]

\* json.load(json.dump(config_data)): str keys, values as they were
JsonConfig(config_data) == config_data

\* np.load(np.save(feature_matrix)): the float64 array, bit for bit
NpyMatrix(feature_matrix) == feature_matrix

(***************************************************************************)
(* StandardScaler.  Over a column x of n integers with sum s,              *)
(*   mean_  = s / n                       a record [n, d]: n / d           *)
(*   var_   = (n * sum(x^2) - s^2) / n^2                                   *)
(*   scale_ = sqrt(var_), and 1 where var_ = 0                             *)
(* and transform gives (x - mean_) / scale_.                               *)
(***************************************************************************)
\* np.nan_to_num(feature_matrix, nan=0.0)
NanToNum(cell) == IF cell = Missing THEN 0 ELSE cell[1]

\* df[feature_columns].values, after nan_to_num
Extract(df, feature_columns) ==
    [i \in DOMAIN df |->
        [j \in 1..Len(feature_columns) |-> NanToNum(df[i][feature_columns[j]])]]

ColumnOf(X, j) == [i \in 1..NRows(X) |-> X[i - 1][j]]

FitMean(column) == [n |-> SeqSum(column), d |-> Len(column)]

VarTimesN2(column) ==
    Len(column) * SeqSum([i \in 1..Len(column) |-> column[i] * column[i]])
        - SeqSum(column) * SeqSum(column)

FitScale(column) ==
    LET v == VarTimesN2(column)
    IN  IF v = 0 THEN Whole(1)
        ELSE [num |-> v, rad |-> v * Len(column) * Len(column)]

Unfitted == [fitted |-> FALSE, mean_ |-> <<>>, scale_ |-> <<>>]

\* StandardScaler.fit
Fit(X, nfeatures) ==
    [fitted |-> TRUE,
     mean_  |-> [j \in 1..nfeatures |-> FitMean(ColumnOf(X, j))],
     scale_ |-> [j \in 1..nfeatures |-> FitScale(ColumnOf(X, j))]]

\* the slip of scaling without centering: x / scale
StandardizeNoCentering(x, mean, scale) ==
    [num |-> x * mean.d,
     rad |-> (mean.d * mean.d * scale.num * scale.num) \div scale.rad]

\* (x - mean) / scale
Standardize(x, mean, scale) ==
    [num |-> x * mean.d - mean.n,
     rad |-> (mean.d * mean.d * scale.num * scale.num) \div scale.rad]

\* StandardScaler.transform
Transform(sc, X) ==
    [i \in DOMAIN X |->
        [j \in 1..Len(X[i]) |-> Standardize(X[i][j], sc.mean_[j], sc.scale_[j])]]

(***************************************************************************)
(* IndexBuilder.build_index.                                               *)
(***************************************************************************)
\* the slip of building an index of an empty table
BuildErrorNoRowCheck(df, feature_columns) ==
    IF \E j \in 1..Len(feature_columns) : feature_columns[j] \notin TableColumns
    THEN "KeyError"
    ELSE "none"

\* the exception build_index raises on these arguments, or "none":
\* df[feature_columns] raises KeyError on a column the table lacks, and
\* fit_transform raises ValueError on an array of no rows or no columns
BuildError(df, feature_columns) ==
    IF \E j \in 1..Len(feature_columns) : feature_columns[j] \notin TableColumns
    THEN "KeyError"
    ELSE IF DOMAIN df = {} \/ feature_columns = <<>> THEN "ValueError"
    ELSE "none"

\* {track_id: idx for idx, track_id in enumerate(df['id'])}: of two rows with
\* one id, the later row stays
IdToIdx(df) ==
    [key \in {StrKey(df[i].id) : i \in DOMAIN df} |->
        CHOOSE i \in DOMAIN df :
            /\ df[i].id = key.text
            /\ \A j \in DOMAIN df : df[j].id = key.text => j <= i]

\* the slip of numbering the rows from 1: enumerate(df['id'], 1)
IdxToIdFromOne(df) ==
    [key \in {IntKey(i + 1) : i \in DOMAIN df} |->
        df[CHOOSE i \in DOMAIN df : IntKey(i + 1) = key].id]

\* {idx: track_id for idx, track_id in enumerate(df['id'])}
IdxToId(df) ==
    [key \in {IntKey(i) : i \in DOMAIN df} |->
        df[CHOOSE i \in DOMAIN df : IntKey(i) = key].id]

\* track_index['track_metadata'][str(idx)] = {...}
TrackMetadata(df) ==
    [key \in {StrKey(ToString(i)) : i \in DOMAIN df} |->
        LET row == df[CHOOSE i \in DOMAIN df : ToString(i) = key.text]
        IN  [id |-> row.id, name |-> row.name, artists |-> row.artists,
             popularity |-> row.popularity,
             release_year |-> row.release_year]]

BuildTrackIndex(df) ==
    [id_to_idx      |-> IdToIdx(df),
     idx_to_id      |-> IdxToId(df),
     track_metadata |-> TrackMetadata(df)]

\* what build_index returns, with the feature_columns the caller passed
BuildResult(df, feature_columns) ==
    LET X == Extract(df, feature_columns)
    IN  [feature_matrix  |-> Transform(Fit(X, Len(feature_columns)), X),
         track_index     |-> BuildTrackIndex(df),
         feature_columns |-> feature_columns]

Build(df, feature_columns) ==
    /\ saving = "idle"
    /\ loaded' = <<>>
    /\ IF BuildError(df, feature_columns) = "none"
       THEN /\ scaler' = Fit(Extract(df, feature_columns), Len(feature_columns))
            /\ arg' = <<[df |-> df, feature_columns |-> feature_columns]>>
            /\ built' = <<BuildResult(df, feature_columns)>>
            /\ error' = "none"
            /\ trail' = "build"
       ELSE /\ error' = BuildError(df, feature_columns)
            /\ trail' = "other"
            /\ arg' = <<[df |-> df, feature_columns |-> feature_columns]>>
            \* fit resets the scaler before it validates the array
            /\ scaler' = IF BuildError(df, feature_columns) = "ValueError"
                         THEN Unfitted ELSE scaler
            /\ UNCHANGED built
    /\ UNCHANGED <<topk, disk, saving, self, req,
                   ties, log, conc, wt>>

(***************************************************************************)
(* IndexBuilder.save_index, called with the caller's last build result and *)
(* no extra config: three file writes, one after the other.                *)
(***************************************************************************)
NoFiles == [matrix |-> <<>>, index |-> <<>>, config |-> <<>>]

\* np.save(matrix_path, feature_matrix)
SaveMatrix ==
    /\ saving = "idle"
    /\ built # <<>>
    /\ disk' = [disk EXCEPT !.matrix = <<built[1].feature_matrix>>]
    /\ saving' = "matrix_saved"
    /\ loaded' = <<>>
    /\ error' = "none"
    /\ trail' = IF trail = "build" THEN "build" ELSE "other"
    /\ UNCHANGED <<topk, scaler, arg, built, self, req,
                   ties, log, conc, wt>>

\* json.dump(track_index, f)
SaveIndex ==
    /\ saving = "matrix_saved"
    /\ disk' = [disk EXCEPT !.index = <<JsonTrackIndex(built[1].track_index)>>]
    /\ saving' = "index_saved"
    /\ UNCHANGED <<topk, scaler, arg, built, loaded, error, trail, self, req,
                   ties, log, conc, wt>>

\* the slip of writing the statistics of the matrix passed in, a
\* standardized matrix: mean 0 and scale 1 in every column
ConfigDataOfMatrix(feature_matrix, feature_columns, sc) ==
    [feature_columns |-> feature_columns,
     n_tracks        |-> NRows(feature_matrix),
     n_features      |-> IF DOMAIN feature_matrix = {} THEN 0
                         ELSE Len(feature_matrix[0]),
     scaler_mean     |-> [j \in 1..Len(feature_columns) |->
                             [n |-> 0, d |-> NRows(feature_matrix)]],
     scaler_scale    |-> [j \in 1..Len(feature_columns) |-> Whole(1)]]

\* config_data, from the arguments and from the scaler as it is now
ConfigData(feature_matrix, feature_columns, sc) ==
    [feature_columns |-> feature_columns,
     n_tracks        |-> NRows(feature_matrix),
     n_features      |-> IF DOMAIN feature_matrix = {} THEN 0
                         ELSE Len(feature_matrix[0]),
     scaler_mean     |-> sc.mean_,
     scaler_scale    |-> sc.scale_]

\* json.dump(config_data, f); self.scaler.mean_ raises AttributeError on a
\* scaler that was never fitted, after the first two files are written
SaveConfig ==
    /\ saving = "index_saved"
    /\ saving' = "idle"
    /\ IF scaler.fitted
       THEN /\ disk' = [disk EXCEPT !.config =
                    <<ConfigData(built[1].feature_matrix,
                                 built[1].feature_columns, scaler)>>]
            /\ trail' = IF trail = "build" THEN "build_save" ELSE "other"
            /\ UNCHANGED error
       ELSE /\ error' = "AttributeError"
            /\ trail' = "other"
            /\ UNCHANGED disk
    /\ UNCHANGED <<topk, scaler, arg, built, loaded, self, req,
                   ties, log, conc, wt>>

(***************************************************************************)
(* IndexBuilder.load_index: reads the three files, whatever they hold, and *)
(* restores the scaler from the configuration.  A file that is not there   *)
(* raises FileNotFoundError.  The index file holds what json.dump wrote,   *)
(* so json.load returns its content as it is.                              *)
(***************************************************************************)
LoadResult(files) ==
    [feature_matrix |-> NpyMatrix(files.matrix[1]),
     track_index    |-> files.index[1],
     config         |-> JsonConfig(files.config[1])]

Load ==
    /\ saving = "idle"
    /\ IF disk.matrix = <<>> \/ disk.index = <<>> \/ disk.config = <<>>
       THEN /\ error' = "FileNotFoundError"
            /\ loaded' = <<>>
            /\ trail' = "other"
            /\ UNCHANGED scaler
       ELSE /\ error' = "none"
            /\ loaded' = <<LoadResult(disk)>>
            /\ scaler' = [fitted |-> TRUE,
                          mean_  |-> LoadResult(disk).config.scaler_mean,
                          scale_ |-> LoadResult(disk).config.scaler_scale]
            /\ trail' = IF trail = "build_save" THEN "build_save_load"
                        ELSE "other"
    /\ UNCHANGED <<topk, arg, built, disk, saving, self, req,
                   ties, log, conc, wt>>

\* the process ends, between two calls or between two writes of save_index,
\* and another begins on the same directory with IndexBuilder(output_dir)
Exit ==
    /\ scaler' = Unfitted
    /\ arg' = <<>>
    /\ built' = <<>>
    /\ saving' = "idle"
    /\ loaded' = <<>>
    /\ error' = "none"
    /\ trail' = "other"
    /\ UNCHANGED <<topk, disk, self, req,
                   ties, log, conc, wt>>

(***************************************************************************)
(* The Feature Index: one caller that builds, saves and loads in any       *)
(* order on one directory, and whose process may end at any point.         *)
(***************************************************************************)
IndexTracks == {T1, T2}

IndexTables ==
    {df \in UNION {TablesOf(IndexTracks, n) : n \in 0..MaxTableRows} :
        UniqueIds(df)}

IndexColumnLists == {<<"danceability">>, <<"danceability", "loudness">>}

InitIndex ==
    /\ topk = [pc |-> "ready", query |-> <<>>, matrix |-> <<>>, k |-> 0,
               exclude |-> {}, indices |-> <<>>, scores |-> <<>>]
    /\ scaler = Unfitted
    /\ arg = <<>>
    /\ built = <<>>
    /\ disk = NoFiles
    /\ saving = "idle"
    /\ loaded = <<>>
    /\ error = "none"
    /\ trail = "other"
    /\ self = <<>>
    /\ req = IdleReq
    /\ ties = <<>>
    /\ log = NoLog
    /\ conc = <<>>
    /\ wt = <<>>

NextIndex ==
    \/ \E df \in IndexTables, feature_columns \in IndexColumnLists :
         Build(df, feature_columns)
    \/ SaveMatrix
    \/ SaveIndex
    \/ SaveConfig
    \/ Load
    \/ Exit

SpecIndex == InitIndex /\ [][NextIndex]_vars

(***************************************************************************)
(* build_index on its own, applied once to a table and a list of feature   *)
(* columns drawn from small sets: tables in which an id may repeat, and    *)
(* lists that name a column the table lacks.                               *)
(***************************************************************************)
Ids == {"t1", "t2", "t3"}

BuildTracks == {[t EXCEPT !.id = id] : t \in IndexTracks, id \in Ids}

BuildTables == UNION {TablesOf(BuildTracks, n) : n \in 0..MaxBuildRows}

BuildColumnLists == IndexColumnLists \cup {<<"danceability", "tempo">>}

BuildOnce ==
    /\ arg = <<>>
    /\ error = "none"
    /\ \E df \in BuildTables, feature_columns \in BuildColumnLists :
         Build(df, feature_columns)

NextBuild == BuildOnce

SpecBuild == InitIndex /\ [][NextBuild]_vars

(***************************************************************************)
(* One builder and a caller that keeps a build result while it builds      *)
(* again, or while it makes another builder, and saves the result it kept. *)
(***************************************************************************)
\* build_index called again, its result dropped by the caller, who keeps
\* the result of an earlier call
BuildAgain(df, feature_columns) ==
    /\ saving = "idle"
    /\ built # <<>>
    /\ BuildError(df, feature_columns) = "none"
    /\ scaler' = Fit(Extract(df, feature_columns), Len(feature_columns))
    /\ arg' = <<[df |-> df, feature_columns |-> feature_columns]>>
    /\ loaded' = <<>>
    /\ error' = "none"
    /\ trail' = "other"
    /\ UNCHANGED <<topk, built, disk, saving, self, req,
                   ties, log, conc, wt>>

\* IndexBuilder(output_dir) again: self.scaler = StandardScaler(), the
\* caller keeping the result the builder before returned
NewBuilder ==
    /\ saving = "idle"
    /\ built # <<>>
    /\ scaler' = Unfitted
    /\ arg' = <<>>
    /\ loaded' = <<>>
    /\ error' = "none"
    /\ trail' = "other"
    /\ UNCHANGED <<topk, built, disk, saving, self, req,
                   ties, log, conc, wt>>

NextStats ==
    \/ \E df \in IndexTables, feature_columns \in IndexColumnLists :
         Build(df, feature_columns)
    \/ \E df \in IndexTables, feature_columns \in IndexColumnLists :
         BuildAgain(df, feature_columns)
    \/ NewBuilder
    \/ SaveMatrix
    \/ SaveIndex
    \/ SaveConfig
    \/ Load

SpecStats == InitIndex /\ [][NextStats]_vars

(***************************************************************************)
(* Claims about the Feature Index.                                         *)
(***************************************************************************)
\* what load_index returns after save_index wrote all three files for the
\* result of build_index(df, feature_columns), the scaler being the one that
\* build fitted
Persisted(df, feature_columns) ==
    LET r  == BuildResult(df, feature_columns)
        sc == Fit(Extract(df, feature_columns), Len(feature_columns))
    IN  [feature_matrix |-> NpyMatrix(r.feature_matrix),
         track_index    |-> JsonTrackIndex(r.track_index),
         config         |-> JsonConfig(ConfigData(r.feature_matrix,
                                                  feature_columns, sc))]

\* C7: whatever was saved before (a save cut short between two of its file
\* writes, saves of different catalogs into the directory), a load that
\* succeeds returns the matrix, the track index and the configuration of one
\* and the same build.
C7_LoadedFromOneBuild ==
    loaded # <<>> =>
        \E df \in IndexTables, feature_columns \in IndexColumnLists :
            /\ BuildError(df, feature_columns) = "none"
            /\ loaded[1] = Persisted(df, feature_columns)

DiskComplete == disk.matrix # <<>> /\ disk.index # <<>> /\ disk.config # <<>>

Mismatch(files) ==
    \/ NRows(files.matrix[1]) # Cardinality(DOMAIN files.index[1].id_to_idx)
    \/ Len(files.config[1].scaler_mean)
         # Len(files.config[1].feature_columns)

\* C8: when the stored matrix has another number of rows than the stored id
\* index has ids, or the stored statistics have another length than the
\* stored list of feature columns, load fails and returns no index.
C8_MismatchNotLoaded ==
    (DiskComplete /\ Mismatch(disk)) => loaded = <<>>

\* C9: build, then save, then load gives back the matrix, the id -> row and
\* row -> id mappings with their keys and values (a row index looked up in
\* the restored row -> id mapping gives the id it gave before saving), the
\* feature columns in their order and the statistics of the build.
C9_RoundTripLossless ==
    trail = "build_save_load" =>
        LET b  == built[1]
            l  == loaded[1]
            sc == Fit(Extract(arg[1].df, arg[1].feature_columns),
                      Len(arg[1].feature_columns))
        IN  /\ l.feature_matrix = b.feature_matrix
            /\ DOMAIN l.track_index.id_to_idx = DOMAIN b.track_index.id_to_idx
            /\ \A key \in DOMAIN b.track_index.id_to_idx :
                 l.track_index.id_to_idx[key] = b.track_index.id_to_idx[key]
            /\ \A row \in DOMAIN b.feature_matrix :
                 /\ IntKey(row) \in DOMAIN l.track_index.idx_to_id
                 /\ l.track_index.idx_to_id[IntKey(row)]
                      = b.track_index.idx_to_id[IntKey(row)]
            /\ l.config.feature_columns = b.feature_columns
            /\ l.config.scaler_mean = sc.mean_
            /\ l.config.scaler_scale = sc.scale_

\* C10: in every index build returns, the row that id_to_idx gives for an id
\* of the table is a row at which idx_to_id gives that id back.
C10_IdRoundTrip ==
    (arg # <<>> /\ built # <<>>) =>
        \A i \in DOMAIN arg[1].df :
            LET X   == arg[1].df[i].id
                idx == built[1].track_index.id_to_idx[StrKey(X)]
            IN  /\ StrKey(X) \in DOMAIN built[1].track_index.id_to_idx
                /\ IntKey(idx) \in DOMAIN built[1].track_index.idx_to_id
                /\ built[1].track_index.idx_to_id[IntKey(idx)] = X

\* a build that returned the index of a table in which two rows have one id
\* and a third row another
C10_Witness ==
    /\ arg # <<>>
    /\ built # <<>>
    /\ \E i, j, h \in DOMAIN arg[1].df :
         /\ i < j
         /\ arg[1].df[i].id = arg[1].df[j].id
         /\ arg[1].df[h].id # arg[1].df[i].id
    /\ Cardinality(DOMAIN built[1].track_index.id_to_idx) = 2

\* a build was called with a feature column the table lacks
MissingColumn ==
    \E j \in 1..Len(arg[1].feature_columns) :
        arg[1].feature_columns[j] \notin TableColumns

\* a build was called with a table of no rows, every feature column present
EmptyTable == DOMAIN arg[1].df = {} /\ ~MissingColumn

Weight(n, d) == [n |-> n, d |-> d]

\* SimilarityComputer._get_default_weights
DefaultWeights ==
    [danceability         |-> Weight(2, 1),
     energy               |-> Weight(2, 1),
     valence              |-> Weight(2, 1),
     tempo_normalized     |-> Weight(2, 1),
     acousticness         |-> Weight(3, 2),
     instrumentalness     |-> Weight(3, 2),
     loudness_normalized  |-> Weight(1, 1),
     speechiness          |-> Weight(1, 2),
     liveness             |-> Weight(1, 2),
     mode                 |-> Weight(3, 10),
     key                  |-> Weight(3, 10),
     mood_score           |-> Weight(5, 2),
     energy_danceability  |-> Weight(2, 1),
     vocal_presence       |-> Weight(1, 1),
     intensity            |-> Weight(3, 2),
     chill_factor         |-> Weight(3, 2),
     track_age_normalized |-> Weight(1, 2)]

\* the slip of a default of 0: self.feature_weights.get(name, 0.0)
WeightOfAbsentZero(name) ==
    IF name \in DOMAIN DefaultWeights THEN DefaultWeights[name] ELSE Weight(0, 1)

\* self.feature_weights.get(name, 1.0)
WeightOf(name) ==
    IF name \in DOMAIN DefaultWeights THEN DefaultWeights[name] ELSE Weight(1, 1)

\* x * w
Times(x, w) == [num |-> x.num * w.n, rad |-> x.rad * w.d * w.d]

\* feature_matrix * weights: a new matrix
apply_weights(feature_matrix, feature_names) ==
    [i \in DOMAIN feature_matrix |->
        [j \in 1..Len(feature_names) |->
            Times(feature_matrix[i][j], WeightOf(feature_names[j]))]]

\* the array passed as feature_matrix, after the call: "feature_matrix *
\* weights" makes a new array and writes nothing to its operands
InputAfter(feature_matrix, feature_names) == feature_matrix

(***************************************************************************)
(* apply_weights on its own, on a SimilarityComputer with the default      *)
(* weights: applied to a matrix, and then to its own result, with a list   *)
(* of as many names as the matrix has columns.  given keeps the content    *)
(* the caller's array had before the first call.                           *)
(***************************************************************************)
\* names with a weight above 1, below 1, a fraction, and with no weight
WeightNames == {"danceability", "speechiness", "acousticness", "loudness"}

InitWeights ==
    /\ \E M \in Matrices, feature_names \in [1..2 -> WeightNames] :
         wt = [pc |-> "ready", given |-> M, feature_matrix |-> M,
               feature_names |-> feature_names, once |-> <<>>, twice |-> <<>>]
    /\ topk = [pc |-> "ready", query |-> <<>>, matrix |-> <<>>, k |-> 0,
               exclude |-> {}, indices |-> <<>>, scores |-> <<>>]
    /\ scaler = Unfitted
    /\ arg = <<>>
    /\ built = <<>>
    /\ disk = NoFiles
    /\ saving = "idle"
    /\ loaded = <<>>
    /\ error = "none"
    /\ trail = "other"
    /\ self = <<>>
    /\ req = IdleReq
    /\ ties = <<>>
    /\ log = NoLog
    /\ conc = <<>>

\* once = apply_weights(feature_matrix, feature_names)
ApplyOnce ==
    /\ wt.pc = "ready"
    /\ wt' = [wt EXCEPT
                !.pc = "once",
                !.once = apply_weights(wt.feature_matrix, wt.feature_names),
                !.feature_matrix = InputAfter(wt.feature_matrix,
                                              wt.feature_names)]
    /\ UNCHANGED <<topk, scaler, arg, built, disk, saving, loaded, error,
                   trail, self, req, ties, log, conc>>

\* twice = apply_weights(once, feature_names)
ApplyTwice ==
    /\ wt.pc = "once"
    /\ wt' = [wt EXCEPT
                !.pc = "twice",
                !.twice = apply_weights(wt.once, wt.feature_names),
                !.once = InputAfter(wt.once, wt.feature_names)]
    /\ UNCHANGED <<topk, scaler, arg, built, disk, saving, loaded, error,
                   trail, self, req, ties, log, conc>>

NextWeights == ApplyOnce \/ ApplyTwice

SpecWeights == InitWeights /\ [][NextWeights]_vars

(***************************************************************************)
(* MusicRecommender.__init__: load_index on the files a build and a save   *)
(* of the catalog left in model_dir, the catalog itself read from its CSV  *)
(* file, and the weighted matrix.                                          *)
(***************************************************************************)
\* the files save_index writes for a build result, the scaler being sc
SavedFiles(result, sc) ==
    [matrix |-> <<result.feature_matrix>>,
     index  |-> <<JsonTrackIndex(result.track_index)>>,
     config |-> <<ConfigData(result.feature_matrix, result.feature_columns,
                             sc)>>]

\* pd.read_csv of the processed table: the rows in their order, an empty
\* field read back as missing
ReadCsv(df) == df

Recommender(files, table) ==
    [feature_matrix          |-> LoadResult(files).feature_matrix,
     track_index             |-> LoadResult(files).track_index,
     config                  |-> LoadResult(files).config,
     df                      |-> ReadCsv(table),
     weighted_feature_matrix |->
         apply_weights(LoadResult(files).feature_matrix,
                       LoadResult(files).config.feature_columns)]

(***************************************************************************)
(* MusicRecommender.get_recommendations.                                   *)
(***************************************************************************)
\* track_data.get(column, default)
Get(track_data, column, default) ==
    IF column \in DOMAIN track_data THEN track_data[column] ELSE default

\* "if min_popularity and popularity < min_popularity": None and 0 filter
\* nothing
PopularityRejects(track_data, min_popularity) ==
    /\ min_popularity # <<>>
    /\ min_popularity[1] # 0
    /\ Get(track_data, "popularity", 0) < min_popularity[1]

\* the slip of an exclusive upper bound: year >= year_range[1]
YearRejectsAtHigh(track_data, year_range) ==
    /\ year_range # <<>>
    /\ LET year == Get(track_data, "release_year", Missing)
       IN  \/ year = Missing
           \/ year[1] < year_range[1]
           \/ year[1] >= year_range[2]

\* "if year_range:" and a year that is missing or outside [low, high]
YearRejects(track_data, year_range) ==
    /\ year_range # <<>>
    /\ LET year == Get(track_data, "release_year", Missing)
       IN  \/ year = Missing
           \/ year[1] < year_range[1]
           \/ year[1] > year_range[2]

\* the slip of never recording an artist
SeenArtistsForgetful(seen_artists, artist) == seen_artists

\* seen_artists.add(artist)
SeenArtists(seen_artists, artist) == seen_artists \cup {artist}

\* the dictionary appended for a candidate
Recommendation(track_data, score) ==
    [id               |-> track_data.id,
     name             |-> Get(track_data, "name", "Unknown"),
     artists          |-> Get(track_data, "artists", "Unknown"),
     popularity       |-> Get(track_data, "popularity", 0),
     release_year     |-> Get(track_data, "release_year", Missing),
     similarity_score |-> score,
     danceability     |-> Get(track_data, "danceability", Given(0)),
     energy           |-> Get(track_data, "energy", Given(0)),
     valence          |-> Get(track_data, "valence", Given(0)),
     tempo            |-> Get(track_data, "tempo", Given(0))]

\* the slip of stopping only at exactly n recommendations
EnoughExactly(recommendations, n_recommendations) ==
    Len(recommendations) = n_recommendations

\* the slip of stopping one recommendation late
EnoughOneLate(recommendations, n_recommendations) ==
    Len(recommendations) > n_recommendations

\* "if len(recommendations) >= n_recommendations: break"
Enough(recommendations, n_recommendations) ==
    Len(recommendations) >= n_recommendations

\* the slip of starting the set of artists at the seed's artist
InitialSeenSeedArtist(seed_artist) == {seed_artist}

\* seen_artists = set(): the artists seen before the loop, whatever the
\* artist of the seed track
InitialSeen(seed_artist) == {}

\* the slip of recording the artist of a candidate a filter passes over
SeenAfterRejectRecords(seen_artists, artist) == seen_artists \cup {artist}

\* seen_artists after the "continue" of the popularity or the year filter:
\* the artist is added only further down, past both filters
SeenAfterReject(seen_artists, artist) == seen_artists

\* the loop over zip(top_k_indices, top_k_scores), from position i on, with
\* the recommendations and the artists collected so far.  fates records what
\* the loop did with each candidate it reached: the filter whose "continue"
\* passed over it, or "accepted".
RECURSIVE Walk(_, _, _, _, _, _, _)
Walk(df, call, top, i, recommendations, seen_artists, fates) ==
    IF i > Len(top.indices)
    THEN [recommendations |-> recommendations, fates |-> fates]
    ELSE
        LET track_data == df[top.indices[i]]
            artist     == Get(track_data, "artists", "Unknown")
            appended   ==
                Append(recommendations,
                       Recommendation(track_data, top.scores[i]))
        IN  IF PopularityRejects(track_data, call.min_popularity)
            THEN Walk(df, call, top, i + 1, recommendations,
                      SeenAfterReject(seen_artists, artist),
                      Append(fates, "popularity"))
            ELSE IF YearRejects(track_data, call.year_range)
            THEN Walk(df, call, top, i + 1, recommendations,
                      SeenAfterReject(seen_artists, artist),
                      Append(fates, "year"))
            ELSE IF call.diversity_filter /\ artist \in seen_artists
            THEN Walk(df, call, top, i + 1, recommendations, seen_artists,
                      Append(fates, "artist"))
            ELSE IF Enough(appended, call.n_recommendations)
            THEN [recommendations |-> appended,
                  fates           |-> Append(fates, "accepted")]
            ELSE Walk(df, call, top, i + 1, appended,
                      IF call.diversity_filter
                      THEN SeenArtists(seen_artists, artist)
                      ELSE seen_artists,
                      Append(fates, "accepted"))

\* the slip of asking for five times n whatever diversity_filter is
RequestedKAlwaysFive(call, feature_matrix) ==
    Min(call.n_recommendations * 5, NRows(feature_matrix))

\* the slip of leaving out the cap at the catalog size
RequestedKUncapped(call, feature_matrix) ==
    IF call.diversity_filter THEN call.n_recommendations * 5
    ELSE call.n_recommendations

\* k = n_recommendations * 5 if diversity_filter else n_recommendations,
\* then min(k, len(self.feature_matrix))
RequestedK(call, feature_matrix) ==
    Min(IF call.diversity_filter THEN call.n_recommendations * 5
        ELSE call.n_recommendations,
        NRows(feature_matrix))

\* the slip of answering an unknown id with an empty list
UnknownTrackReturnsEmpty(call) ==
    [error |-> "none",
     req   |-> [IdleReq EXCEPT
                  !.pc = "returned",
                  !.track_id = call.track_id,
                  !.n_recommendations = call.n_recommendations,
                  !.diversity_filter = call.diversity_filter,
                  !.min_popularity = call.min_popularity,
                  !.year_range = call.year_range]]

\* raise ValueError(f"Track ID {track_id} not found in index"): the exception
\* and what the call leaves behind
UnknownTrack(call) ==
    [error |-> "ValueError",
     req   |-> [IdleReq EXCEPT
                  !.pc = "raised",
                  !.track_id = call.track_id,
                  !.n_recommendations = call.n_recommendations,
                  !.diversity_filter = call.diversity_filter,
                  !.min_popularity = call.min_popularity,
                  !.year_range = call.year_range]]

\* call: [track_id, n_recommendations, diversity_filter, min_popularity,
\* year_range]
get_recommendations(call) ==
    /\ req.pc = "idle"
    /\ IF StrKey(call.track_id) \notin DOMAIN self[1].track_index.id_to_idx
       THEN /\ error' = UnknownTrack(call).error
            /\ req' = UnknownTrack(call).req
       ELSE LET track_idx    == self[1].track_index.id_to_idx[StrKey(call.track_id)]
                query_vector == self[1].weighted_feature_matrix[track_idx]
                k            == RequestedK(call, self[1].feature_matrix)
            IN  \E top \in get_top_k_similar(query_vector,
                                             self[1].weighted_feature_matrix,
                                             k, {track_idx}) :
                  LET seed == Get(self[1].df[track_idx], "artists", "Unknown")
                      walk == Walk(self[1].df, call, top, 1, <<>>,
                                   InitialSeen(seed), <<>>)
                  IN  /\ error' = "none"
                      /\ req' = [pc                |-> "returned",
                                 features          |-> <<>>,
                                 raw_query         |-> <<>>,
                                 name_query        |-> <<>>,
                                 track_id          |-> call.track_id,
                                 n_recommendations |-> call.n_recommendations,
                                 diversity_filter  |-> call.diversity_filter,
                                 min_popularity    |-> call.min_popularity,
                                 year_range        |-> call.year_range,
                                 k                 |-> k,
                                 exclude           |-> {track_idx},
                                 top_k_indices     |-> top.indices,
                                 top_k_scores      |-> top.scores,
                                 fates             |-> walk.fates,
                                 recommendations   |-> walk.recommendations,
                                 matches           |-> <<>>]
    /\ UNCHANGED <<topk, scaler, arg, built, disk, saving, loaded, trail, self,
                   ties, log, conc, wt>>

(***************************************************************************)
(* MusicRecommender.get_recommendations_by_features.  The entries of the   *)
(* synthetic vector are whole numbers here: the features asked for are,    *)
(* and the catalogs are those on which the medians taken are.              *)
(***************************************************************************)
\* the k-th smallest of a sequence of integers
KthSmallest(nums, k) ==
    CHOOSE v \in {nums[i] : i \in 1..Len(nums)} :
        /\ Cardinality({i \in 1..Len(nums) : nums[i] < v}) < k
        /\ k <= Cardinality({i \in 1..Len(nums) : nums[i] <= v})

\* np.median of a column of the matrix, whose entries share their rad: the
\* middle entry, or the mean of the two middle entries
Median(column) ==
    LET n    == Len(column)
        nums == [i \in 1..n |-> column[i].num]
    IN  IF n % 2 = 1
        THEN [num |-> KthSmallest(nums, (n + 1) \div 2),
              rad |-> column[1].rad]
        ELSE [num |-> KthSmallest(nums, n \div 2)
                          + KthSmallest(nums, n \div 2 + 1),
              rad |-> 4 * column[1].rad]

\* num / sqrt(rad) is a whole number
IsWhole(x) ==
    \/ x.num = 0
    \/ \E r \in 1..x.rad : r * r = x.rad /\ x.num % r = 0

\* the whole number num / sqrt(rad)
WholePart(x) ==
    IF x.num = 0 THEN 0
    ELSE x.num \div (CHOOSE r \in 1..x.rad : r * r = x.rad)

\* the columns the loop fills from the arguments
AskedFeatures ==
    {"danceability", "energy", "valence", "tempo", "tempo_normalized"}

\* query_vector after the loop over feature_names: the features asked for,
\* tempo / 250.0 (tempo being 0 or 250), and for every other column
\* np.median(self.feature_matrix[:, i]), the median of the loaded matrix
RawQuery(feature_names, call, feature_matrix) ==
    [j \in 1..Len(feature_names) |->
        IF feature_names[j] = "danceability" THEN call.danceability
        ELSE IF feature_names[j] = "energy" THEN call.energy
        ELSE IF feature_names[j] = "valence" THEN call.valence
        ELSE IF feature_names[j] = "tempo" THEN call.tempo
        ELSE IF feature_names[j] = "tempo_normalized" THEN call.tempo \div 250
        ELSE WholePart(Median(ColumnOf(feature_matrix, j)))]

\* (query_vector - scaler.mean_) / scaler.scale_, then apply_weights on the
\* one-row matrix
FeatureQuery(raw_query, sc, feature_names) ==
    apply_weights(
        [i \in {0} |->
            [j \in 1..Len(raw_query) |->
                Standardize(raw_query[j], sc.mean_[j], sc.scale_[j])]],
        feature_names)[0]

\* the dictionary appended for a candidate: no popularity, no release_year
FeatureRecommendation(track_data, score) ==
    [id               |-> track_data.id,
     name             |-> Get(track_data, "name", "Unknown"),
     artists          |-> Get(track_data, "artists", "Unknown"),
     similarity_score |-> score,
     danceability     |-> Get(track_data, "danceability", Given(0)),
     energy           |-> Get(track_data, "energy", Given(0)),
     valence          |-> Get(track_data, "valence", Given(0)),
     tempo            |-> Get(track_data, "tempo", Given(0))]

\* the slip of applying the per-artist cap of the other entry point
RECURSIVE FeatureRecommendationsOnePerArtist(_, _)
FeatureRecommendationsOnePerArtist(df, top) ==
    IF top.indices = <<>> THEN <<>>
    ELSE
        LET n      == Len(top.indices)
            before == FeatureRecommendationsOnePerArtist(
                          df, [indices |-> SubSeq(top.indices, 1, n - 1),
                               scores  |-> SubSeq(top.scores, 1, n - 1)])
            last   == FeatureRecommendation(df[top.indices[n]], top.scores[n])
        IN  IF \E i \in 1..Len(before) : before[i].artists = last.artists
            THEN before
            ELSE Append(before, last)

\* the loop over zip(top_k_indices, top_k_scores): every candidate appended
FeatureRecommendations(df, top) ==
    [i \in 1..Len(top.indices) |->
        FeatureRecommendation(df[top.indices[i]], top.scores[i])]

\* call: [danceability, energy, valence, tempo, n_recommendations]
get_recommendations_by_features(call) ==
    /\ req.pc = "idle"
    /\ LET feature_names == self[1].config.feature_columns
           raw_query     == RawQuery(feature_names, call,
                                     self[1].feature_matrix)
           query_vector  == FeatureQuery(raw_query, scaler, feature_names)
       IN  \E top \in get_top_k_similar(query_vector,
                                        self[1].weighted_feature_matrix,
                                        call.n_recommendations, {}) :
             req' = [IdleReq EXCEPT
                       !.pc = "returned",
                       !.features = <<call>>,
                       !.raw_query = raw_query,
                       !.n_recommendations = call.n_recommendations,
                       !.k = call.n_recommendations,
                       !.top_k_indices = top.indices,
                       !.top_k_scores = top.scores,
                       !.recommendations =
                           FeatureRecommendations(self[1].df, top)]
    /\ error' = "none"
    /\ UNCHANGED <<topk, scaler, arg, built, disk, saving, loaded, trail, self,
                   ties, log, conc, wt>>

\* the caller takes the result, or catches the exception
(***************************************************************************)
(* MusicRecommender.find_track_by_name.  The patterns tried are letters    *)
(* and digits, for which the regular expression str.contains compiles is   *)
(* the search for a substring.                                             *)
(***************************************************************************)
\* the characters of the strings of the tables and of the patterns
Chars(text) ==
    CASE text = "A"  -> <<"A">>
      [] text = "B"  -> <<"B">>
      [] text = "a"  -> <<"a">>
      [] text = "N"  -> <<"N">>
      [] text = "n1" -> <<"n", "1">>
      [] text = "n2" -> <<"n", "2">>
      [] text = "n3" -> <<"n", "3">>
      [] text = "n4" -> <<"n", "4">>
      [] text = "n5" -> <<"n", "5">>
      [] text = "n6" -> <<"n", "6">>

\* case=False: the comparison ignores case
Lower(char) ==
    CASE char = "A" -> "a"
      [] char = "B" -> "b"
      [] char = "N" -> "n"
      [] OTHER      -> char

LowerChars(text) == [i \in 1..Len(Chars(text)) |-> Lower(Chars(text)[i])]

\* Series.str.contains(pattern, case=False) on one cell
Contains(text, pattern) ==
    LET t == LowerChars(text)
        p == LowerChars(pattern)
    IN  \E i \in 0..(Len(t) - Len(p)) : SubSeq(t, i + 1, i + Len(p)) = p

\* mask: the name contains track_name, and, "if artist_name:", the artists
\* contain artist_name
Mask(df, track_name, artist_name) ==
    {i \in DOMAIN df :
        /\ Contains(df[i].name, track_name)
        /\ artist_name # <<>> => Contains(df[i].artists, artist_name[1])}

\* df[mask][[...]]: the rows of the mask from row i on, in the order of the
\* table, with the five columns kept
RECURSIVE Selected(_, _, _)
Selected(df, mask, i) ==
    IF i >= NRows(df) THEN <<>>
    ELSE IF i \in mask
    THEN <<[id |-> df[i].id, name |-> df[i].name, artists |-> df[i].artists,
            popularity |-> df[i].popularity,
            release_year |-> df[i].release_year]>>
             \o Selected(df, mask, i + 1)
    ELSE Selected(df, mask, i + 1)

\* the slip of keeping the selection: self.df = self.df[mask]
TableAfterFindFiltered(df, mask) ==
    LET kept == Selected(df, mask, 0)
    IN  [i \in 0..(Len(kept) - 1) |->
            df[CHOOSE r \in DOMAIN df : df[r].id = kept[i + 1].id]]

\* self.df after the call: self.df[mask] is a new frame, and nothing is
\* assigned to self.df
TableAfterFind(df, mask) == df

\* call: [track_name, artist_name]; .head(10).to_dict('records')
find_track_by_name(call) ==
    /\ req.pc = "idle"
    /\ LET mask == Mask(self[1].df, call.track_name, call.artist_name)
       IN  /\ req' = [IdleReq EXCEPT
                        !.pc = "returned",
                        !.name_query = <<call>>,
                        !.matches = SliceTo(Selected(self[1].df, mask, 0), 10)]
           /\ self' = [self EXCEPT ![1].df = TableAfterFind(self[1].df, mask)]
    /\ error' = "none"
    /\ UNCHANGED <<topk, scaler, arg, built, disk, saving, loaded, trail,
                   ties, log, conc, wt>>

Done ==
    /\ req.pc # "idle"
    /\ req' = IdleReq
    /\ error' = "none"
    /\ UNCHANGED <<topk, scaler, arg, built, disk, saving, loaded, trail, self,
                   ties, log, conc, wt>>

(***************************************************************************)
(* The Recommendation Orchestrator: a recommender constructed on a catalog *)
(* of distinct tracks, and requests with arguments drawn from small sets.  *)
(***************************************************************************)
CatalogTracks == {T1, T2, T3, T4, T5, T6}

Catalogs ==
    {df \in UNION {TablesOf(CatalogTracks, n) : n \in 1..MaxTracks} :
        UniqueIds(df)}

CatalogColumns == <<"danceability", "loudness">>

\* the ids asked for: those of the pool, in the catalog or not
TrackIds == {t.id : t \in CatalogTracks}

Calls ==
    [track_id          : TrackIds,
     n_recommendations : (-1)..MaxN,
     diversity_filter  : BOOLEAN,
     min_popularity    : {<<>>, <<50>>, <<90>>},
     year_range        : {<<>>, <<2000, 2005>>, <<2005, 2010>>}]

\* the state once MusicRecommender(model_dir, data_path) is constructed on
\* the files a build on feature_columns and a save of df left in model_dir
Constructed(df, feature_columns) ==
    LET sc    == Fit(Extract(df, feature_columns), Len(feature_columns))
        files == SavedFiles(BuildResult(df, feature_columns), sc)
    IN  /\ disk = files
        /\ self = <<Recommender(files, df)>>
        /\ scaler = [fitted |-> TRUE,
                     mean_  |-> LoadResult(files).config.scaler_mean,
                     scale_ |-> LoadResult(files).config.scaler_scale]
        /\ topk = [pc |-> "ready", query |-> <<>>, matrix |-> <<>>, k |-> 0,
                   exclude |-> {}, indices |-> <<>>, scores |-> <<>>]
        /\ arg = <<>>
        /\ built = <<>>
        /\ saving = "idle"
        /\ loaded = <<>>
        /\ error = "none"
        /\ trail = "other"
        /\ req = IdleReq
        /\ conc = <<>>
        /\ wt = <<>>

InitRec ==
    /\ ties = <<>>
    /\ log = NoLog
    /\ \E df \in Catalogs : Constructed(df, CatalogColumns)

NextRec ==
    \/ \E call \in Calls : get_recommendations(call)
    \/ Done

SpecRec == InitRec /\ [][NextRec]_vars

(***************************************************************************)
(* The catalog of three tracks with the feature schema [danceability,      *)
(* energy]: A = [0.9, 0.9], B = [0.1, 0.1], C = [0.85, 0.95].  The two     *)
(* features are held in units of 0.05, so 0.9 is 18 and 0.85 is 17.        *)
(***************************************************************************)
ScenarioTrack(id, artists, danceability, energy) ==
    [id |-> id, name |-> id, artists |-> artists, popularity |-> 50,
     release_year |-> Given(2000), danceability |-> Given(danceability),
     energy |-> Given(energy)]

TrackA == ScenarioTrack("A", "artist_a", 18, 18)

TrackB == ScenarioTrack("B", "artist_b", 2, 2)

TrackC == ScenarioTrack("C", "artist_c", 17, 19)

\* the three tracks, in each order of the rows
ScenarioCatalogs ==
    {df \in TablesOf({TrackA, TrackB, TrackC}, 3) : UniqueIds(df)}

ScenarioColumns == <<"danceability", "energy">>

ScenarioCalls ==
    [track_id          : {"A", "B", "C", "D"},
     n_recommendations : (-1)..MaxN,
     diversity_filter  : BOOLEAN,
     min_popularity    : {<<>>, <<50>>},
     year_range        : {<<>>, <<2000, 2005>>}]

InitScenario ==
    /\ ties = <<>>
    /\ log = NoLog
    /\ \E df \in ScenarioCatalogs : Constructed(df, ScenarioColumns)

NextScenario ==
    \/ \E call \in ScenarioCalls : get_recommendations(call)
    \/ Done

SpecScenario == InitScenario /\ [][NextScenario]_vars

(***************************************************************************)
(* Both entry points of the recommender, on the catalogs whose columns     *)
(* outside the features asked for have a whole median in the matrix.       *)
(***************************************************************************)
WholeMedians(df, feature_columns) ==
    LET matrix == BuildResult(df, feature_columns).feature_matrix
    IN  \A j \in 1..Len(feature_columns) :
            feature_columns[j] \notin AskedFeatures =>
                IsWhole(Median(ColumnOf(matrix, j)))

FeatureCatalogs == {df \in Catalogs : WholeMedians(df, CatalogColumns)}

FeatureCalls ==
    [danceability      : {0, 1},
     energy            : {0, 1},
     valence           : {0},
     tempo             : {0, 250},
     n_recommendations : (-1)..(MaxN + 1)]

InitFeat ==
    /\ ties = <<>>
    /\ log = NoLog
    /\ \E df \in FeatureCatalogs : Constructed(df, CatalogColumns)

NextFeat ==
    \/ \E call \in FeatureCalls : get_recommendations_by_features(call)
    \/ \E call \in Calls : get_recommendations(call)
    \/ Done

SpecFeat == InitFeat /\ [][NextFeat]_vars

(***************************************************************************)
(* One recommender and a caller that calls its three methods in any order, *)
(* and notes one call and what it returned.  The process sorts rows of     *)
(* equal score in one order, ties, which is any order of the rows.         *)
(***************************************************************************)
\* what the caller passed to the call req holds
CallOf(r) ==
    [track_id |-> r.track_id, n_recommendations |-> r.n_recommendations,
     diversity_filter |-> r.diversity_filter,
     min_popularity |-> r.min_popularity, year_range |-> r.year_range,
     features |-> r.features, name_query |-> r.name_query]

\* what the call gave back: a list, or an exception
ResultOf(r, e) ==
    [pc |-> r.pc, error |-> e, recommendations |-> r.recommendations,
     matches |-> r.matches]

\* the caller keeps the call that has just returned, and its result
Note ==
    /\ req.pc # "idle"
    /\ log = <<>>
    /\ log' = <<[call |-> CallOf(req), result |-> ResultOf(req, error)]>>
    /\ req' = IdleReq
    /\ error' = "none"
    /\ UNCHANGED <<topk, scaler, arg, built, disk, saving, loaded, trail, self,
                   ties, conc, wt>>

RepeatSeedCalls ==
    {c \in Calls :
        /\ c.track_id \in {"t1", "t2"}
        /\ c.n_recommendations = MaxN
        /\ c.min_popularity = <<>>
        /\ c.year_range = <<>>}

RepeatFeatureCalls ==
    {c \in FeatureCalls :
        c.energy = 0 /\ c.tempo = 0 /\ c.n_recommendations = MaxN}

FindCalls ==
    {[track_name |-> "N", artist_name |-> <<>>],
     [track_name |-> "n1", artist_name |-> <<"a">>]}

InitRepeat ==
    /\ log = NoLog
    /\ \E df \in FeatureCatalogs :
         /\ ties \in Orders(DOMAIN df)
         /\ Constructed(df, CatalogColumns)

NextRepeat ==
    \/ \E call \in RepeatSeedCalls : get_recommendations(call)
    \/ \E call \in RepeatFeatureCalls : get_recommendations_by_features(call)
    \/ \E call \in FindCalls : find_track_by_name(call)
    \/ Note
    \/ Done

SpecRepeat == InitRepeat /\ [][NextRepeat]_vars

(***************************************************************************)
(* One recommender and two threads that each make one request, with no     *)
(* lock.  A request is split at the numpy calls of get_top_k_similar: the  *)
(* similarities are computed into an array, the excluded rows of the array *)
(* are overwritten, and the array is sorted and read.  buffers holds the   *)
(* arrays, by the number Buffer gives the thread.                          *)
(***************************************************************************)
Threads == {1, 2}

\* the other of the two threads
Other(t) == CHOOSE u \in Threads : u # t

\* the slip of one array kept on the SimilarityComputer and used by every
\* call
SharedBuffer(t) == 1

\* the array compute_similarity returns to the call of thread t:
\* cosine_similarity allocates its result, so each call has its own
Buffer(t) == t

IdleThread ==
    [pc |-> "idle", kind |-> "", call |-> <<>>, query |-> <<>>, k |-> 0,
     exclude |-> {}, met |-> FALSE, error |-> "none", result |-> <<>>]

ConcSeedCalls ==
    {c \in Calls :
        /\ c.track_id \in {"t3", "t4"}
        /\ c.n_recommendations = MaxN
        /\ c.diversity_filter
        /\ c.min_popularity = <<>>
        /\ c.year_range = <<>>}

ConcFeatureCalls ==
    {c \in RepeatFeatureCalls : c.danceability = 1}

InitConc ==
    /\ log = NoLog
    /\ ties = <<>>
    /\ \E df \in FeatureCatalogs :
         LET sc    == Fit(Extract(df, CatalogColumns), Len(CatalogColumns))
             files == SavedFiles(BuildResult(df, CatalogColumns), sc)
         IN  /\ disk = files
             /\ self = <<Recommender(files, df)>>
             /\ scaler = [fitted |-> TRUE,
                          mean_  |-> LoadResult(files).config.scaler_mean,
                          scale_ |-> LoadResult(files).config.scaler_scale]
    /\ topk = [pc |-> "ready", query |-> <<>>, matrix |-> <<>>, k |-> 0,
               exclude |-> {}, indices |-> <<>>, scores |-> <<>>]
    /\ arg = <<>>
    /\ built = <<>>
    /\ saving = "idle"
    /\ loaded = <<>>
    /\ error = "none"
    /\ trail = "other"
    /\ req = IdleReq
    /\ wt = <<>>
    /\ conc = [buffers |-> [b \in Threads |-> <<>>],
               threads |-> [t \in Threads |-> IdleThread]]

\* thread t enters get_recommendations: recommender.py, lines 84 to 93
BeginSeed(t, call) ==
    /\ conc.threads[t].pc = "idle"
    /\ conc' =
         IF StrKey(call.track_id) \notin DOMAIN self[1].track_index.id_to_idx
         THEN [conc EXCEPT !.threads[t] =
                 [IdleThread EXCEPT !.pc = "done", !.kind = "seed",
                                    !.call = <<call>>,
                                    !.error = UnknownTrack(call).error]]
         ELSE LET track_idx ==
                      self[1].track_index.id_to_idx[StrKey(call.track_id)]
              IN  [conc EXCEPT !.threads[t] =
                     [IdleThread EXCEPT
                        !.pc = "called", !.kind = "seed", !.call = <<call>>,
                        !.query = self[1].weighted_feature_matrix[track_idx],
                        !.k = RequestedK(call, self[1].feature_matrix),
                        !.exclude = {track_idx}]]
    /\ UNCHANGED <<topk, scaler, arg, built, disk, saving, loaded, error,
                   trail, self, req, ties, log, wt>>

\* thread t enters get_recommendations_by_features: lines 163 to 189
BeginFeatures(t, call) ==
    /\ conc.threads[t].pc = "idle"
    /\ LET feature_names == self[1].config.feature_columns
           raw_query     == RawQuery(feature_names, call,
                                     self[1].feature_matrix)
       IN  conc' = [conc EXCEPT !.threads[t] =
                      [IdleThread EXCEPT
                         !.pc = "called", !.kind = "features",
                         !.call = <<call>>,
                         !.query = FeatureQuery(raw_query, scaler,
                                                feature_names),
                         !.k = call.n_recommendations]]
    /\ UNCHANGED <<topk, scaler, arg, built, disk, saving, loaded, error,
                   trail, self, req, ties, log, wt>>

\* similarities = self.compute_similarity(query_vector, feature_matrix)
Compute(t) ==
    /\ conc.threads[t].pc = "called"
    /\ conc' = [conc EXCEPT
                  !.threads[t].pc = "computed",
                  !.buffers[Buffer(t)] =
                      compute_similarity(conc.threads[t].query,
                                         self[1].weighted_feature_matrix)]
    /\ UNCHANGED <<topk, scaler, arg, built, disk, saving, loaded, error,
                   trail, self, req, ties, log, wt>>

\* if exclude_indices: similarities[exclude_indices] = -1.  met records
\* that the other thread was then between its own compute and its sort.
Exclude(t) ==
    /\ conc.threads[t].pc = "computed"
    /\ conc' = [conc EXCEPT
                  !.threads[t].pc = "excluded",
                  !.threads[t].met =
                      conc.threads[Other(t)].pc \in {"computed", "excluded"},
                  !.buffers[Buffer(t)] =
                      Excluded(conc.buffers[Buffer(t)],
                               conc.threads[t].exclude)]
    /\ UNCHANGED <<topk, scaler, arg, built, disk, saving, loaded, error,
                   trail, self, req, ties, log, wt>>

\* np.argsort(similarities)[::-1][:k], similarities[top_k_indices], and the
\* loop of the entry point over what the engine returned
Rank(t) ==
    /\ conc.threads[t].pc = "excluded"
    /\ LET th           == conc.threads[t]
           similarities == conc.buffers[Buffer(t)]
       IN  \E top_k_indices \in TopKIndices(similarities, th.k) :
             LET top == [indices |-> top_k_indices,
                         scores  |-> [i \in 1..Len(top_k_indices) |->
                                         similarities[top_k_indices[i]]]]
                 seed == IF th.exclude = {} THEN ""
                         ELSE Get(self[1].df[CHOOSE r \in th.exclude : TRUE],
                                  "artists", "Unknown")
             IN  conc' = [conc EXCEPT
                           !.threads[t].pc = "done",
                           !.threads[t].result =
                               IF th.kind = "seed"
                               THEN Walk(self[1].df, th.call[1], top, 1, <<>>,
                                         InitialSeen(seed),
                                         <<>>).recommendations
                               ELSE FeatureRecommendations(self[1].df, top)]
    /\ UNCHANGED <<topk, scaler, arg, built, disk, saving, loaded, error,
                   trail, self, req, ties, log, wt>>

NextConc ==
    \E t \in Threads :
        \/ \E call \in ConcSeedCalls : BeginSeed(t, call)
        \/ \E call \in ConcFeatureCalls : BeginFeatures(t, call)
        \/ Compute(t)
        \/ Exclude(t)
        \/ Rank(t)

SpecConc == InitConc /\ [][NextConc]_vars

(***************************************************************************)
(* Claims about get_recommendations, under SpecRec.                        *)
(***************************************************************************)
Recs == req.recommendations

\* C1: whatever the catalog size, the seed and the filters, no entry of the
\* list get_recommendations returns is the seed track.
C1_SeedNeverRecommended ==
    req.pc = "returned" =>
        \A i \in 1..Len(Recs) : Recs[i].id # req.track_id

\* C3: with diversity_filter set, no two entries of the list returned have
\* the same artist string.
C3_OneTrackPerArtist ==
    (req.pc = "returned" /\ req.diversity_filter) =>
        \A i, j \in 1..Len(Recs) : i # j => Recs[i].artists # Recs[j].artists

\* a request with diversity_filter set that returned two tracks and passed
\* over a candidate ranked before the second because of its artist alone
C3_Witness ==
    /\ req.pc = "returned"
    /\ req.diversity_filter
    /\ req.min_popularity = <<>>
    /\ req.year_range = <<>>
    /\ Len(Recs) = 2
    /\ \E i \in 1..Len(req.top_k_indices) :
         /\ self[1].df[req.top_k_indices[i]].artists = Recs[1].artists
         /\ self[1].df[req.top_k_indices[i]].id # Recs[1].id
         /\ \E j \in 1..Len(req.top_k_indices) :
              i < j /\ self[1].df[req.top_k_indices[j]].id = Recs[2].id

\* a step in which get_recommendations is called with a track_id that is not
\* a key of the id index
UnknownTrackCall ==
    /\ req.pc = "idle"
    /\ req'.pc # "idle"
    /\ StrKey(req'.track_id) \notin DOMAIN self[1].track_index.id_to_idx

\* what such a call leaves alone: the loaded index, the weighted matrix and
\* the metadata, the files and the scaler
RecommenderUnchanged ==
    /\ self' = self
    /\ disk' = disk
    /\ scaler' = scaler

Candidate(c) == self[1].df[req.top_k_indices[c]]

\* the popularity filter is set and popularity is below it
BelowPopularity(popularity) ==
    req.min_popularity # <<>> /\ popularity < req.min_popularity[1]

\* the year filter is set and release_year is missing or outside [low, high]
OutsideYears(release_year) ==
    /\ req.year_range # <<>>
    /\ \/ release_year = Missing
       \/ release_year[1] < req.year_range[1]
       \/ release_year[1] > req.year_range[2]

\* C13: every recommendation returned satisfies the filters that are set
\* (popularity >= min_popularity; release_year present and within the
\* inclusive [low, high]), and neither filter passes over a candidate that
\* satisfies them all.
C13_FiltersExact ==
    req.pc = "returned" =>
        /\ \A i \in 1..Len(Recs) :
             /\ ~BelowPopularity(Recs[i].popularity)
             /\ ~OutsideYears(Recs[i].release_year)
        /\ \A c \in 1..Len(req.fates) :
             (/\ ~BelowPopularity(Candidate(c).popularity)
              /\ ~OutsideYears(Candidate(c).release_year))
                 => req.fates[c] \notin {"popularity", "year"}

\* a call with both filters set in which one candidate was passed over for
\* its popularity, another for its year, and a track whose year is the upper
\* bound was returned
C13_Witness ==
    /\ req.pc = "returned"
    /\ req.min_popularity # <<>>
    /\ req.year_range # <<>>
    /\ \E c \in 1..Len(req.fates) : req.fates[c] = "popularity"
    /\ \E c \in 1..Len(req.fates) : req.fates[c] = "year"
    /\ \E i \in 1..Len(Recs) :
         /\ Recs[i].id # req.track_id
         /\ Recs[i].release_year = <<req.year_range[2]>>

\* C14: for n >= 1 the call returns at most n recommendations, and fewer
\* than n only when the loop has examined every candidate the engine
\* returned; returning fewer is a result, not an error.
C14_AtMostN ==
    (req.pc = "returned" /\ req.n_recommendations >= 1) =>
        /\ error = "none"
        /\ Len(Recs) <= req.n_recommendations
        /\ Len(Recs) < req.n_recommendations =>
               /\ Len(req.fates) = Len(req.top_k_indices)
               /\ Len(Recs) =
                      Cardinality({c \in 1..Len(req.fates) :
                                      req.fates[c] = "accepted"})

\* a call for two recommendations that returned one, a filter having passed
\* over one of the candidates
C14_Witness ==
    /\ req.pc = "returned"
    /\ req.n_recommendations = 2
    /\ Len(Recs) = 1
    /\ Recs[1].id # req.track_id
    /\ Len(req.top_k_indices) >= 2
    /\ \E c \in 1..Len(req.fates) : req.fates[c] # "accepted"

\* the number of tracks of the loaded catalog
CatalogSize == Cardinality(DOMAIN self[1].df)

\* the rows of the catalog that hold the seed track
SeedRows == {i \in DOMAIN self[1].df : self[1].df[i].id = req.track_id}

\* C15: the call asks the engine for min(5 * n, catalog size) candidates when
\* diversity_filter is set and for n candidates, capped at the catalog size,
\* when it is not, the seed's row being the only excluded index.
C15_CandidatesRequested ==
    req.pc = "returned" =>
        /\ req.diversity_filter =>
               req.k = IF 5 * req.n_recommendations <= CatalogSize
                       THEN 5 * req.n_recommendations ELSE CatalogSize
        /\ ~req.diversity_filter =>
               req.k = IF req.n_recommendations <= CatalogSize
                       THEN req.n_recommendations ELSE CatalogSize
        /\ req.exclude = SeedRows
        /\ Cardinality(req.exclude) = 1

\* a call with diversity_filter set whose 5 * n candidates were capped at a
\* catalog of more tracks than n
C15_Witness ==
    /\ req.pc = "returned"
    /\ req.diversity_filter
    /\ req.n_recommendations >= 1
    /\ req.n_recommendations < CatalogSize
    /\ 5 * req.n_recommendations > CatalogSize
    /\ req.k = CatalogSize
    /\ Len(req.top_k_indices) = CatalogSize

\* C16: with min_popularity = 90 and no track other than the seed of
\* popularity 90 or more, the call returns an empty list and raises nothing,
\* whatever the seed, n and the catalog.
C16_NothingPopularEnough ==
    (/\ req.pc = "returned"
     /\ req.min_popularity = <<90>>
     /\ \A i \in DOMAIN self[1].df :
          self[1].df[i].id # req.track_id => self[1].df[i].popularity < 90)
        => (Recs = <<>> /\ error = "none")

\* in the sequence ids, "C" comes before "B" wherever "B" is
CBeforeB(ids) ==
    \A j \in 1..Len(ids) :
        ids[j] = "B" => \E i \in 1..(j - 1) : ids[i] = "C"

\* C17: on the catalog A = [0.9, 0.9], B = [0.1, 0.1], C = [0.85, 0.95] the
\* ranking for seed A places C before B, among the candidates and in the
\* list returned.
C17_CBeforeB ==
    (req.pc = "returned" /\ req.track_id = "A") =>
        /\ CBeforeB([c \in 1..Len(req.top_k_indices) |-> Candidate(c).id])
        /\ CBeforeB([i \in 1..Len(Recs) |-> Recs[i].id])
        /\ \A i, j \in 1..Len(Recs) :
             (Recs[i].id = "C" /\ Recs[j].id = "B") =>
                 ScoreLess(Recs[j].similarity_score,
                           Recs[i].similarity_score)

\* a call for two tracks like A that returned C and then B
C17_Witness ==
    /\ req.pc = "returned"
    /\ req.track_id = "A"
    /\ req.n_recommendations = 2
    /\ Len(Recs) = 2
    /\ Recs[1].id = "C"
    /\ Recs[2].id = "B"
    /\ Recs[1].similarity_score.sgn = 1
    /\ Recs[2].similarity_score.sgn = -1

(***************************************************************************)
(* Claims about get_recommendations_by_features, under SpecFeat.           *)
(***************************************************************************)
ByFeatures == req.pc = "returned" /\ req.features # <<>>

\* C18: the result of get_recommendations_by_features is the engine's top_k
\* output for the synthetic query and nothing else: no row is excluded, and
\* every candidate is returned, in the engine's order and with its score,
\* whatever its popularity, year and artist; min(n, catalog size) entries
\* for n >= 0.
C18_EngineOutputUnfiltered ==
    ByFeatures =>
        /\ req.exclude = {}
        /\ Len(Recs) = Len(req.top_k_indices)
        /\ \A i \in 1..Len(Recs) :
             /\ Recs[i].id = Candidate(i).id
             /\ Recs[i].similarity_score = req.top_k_scores[i]
        /\ \A i, j \in 1..Len(Recs) :
             i < j => ScoreLeq(Recs[j].similarity_score,
                               Recs[i].similarity_score)
        /\ req.n_recommendations >= 0 =>
               Len(Recs) = IF req.n_recommendations <= CatalogSize
                           THEN req.n_recommendations ELSE CatalogSize

\* a call by features for three tracks that returned the whole catalog of
\* two, both of one artist, one of popularity below 90 and one of no known
\* year
C18_Witness ==
    /\ ByFeatures
    /\ req.n_recommendations = 3
    /\ CatalogSize = 2
    /\ Len(Recs) = 2
    /\ Recs[1].artists = Recs[2].artists
    /\ \E c \in 1..2 : Candidate(c).popularity < 90
    /\ \E c \in 1..2 : Candidate(c).release_year = Missing

\* the median of a sequence of integers, twice
TwiceMedian(nums) ==
    LET n == Len(nums)
    IN  IF n % 2 = 1 THEN 2 * KthSmallest(nums, (n + 1) \div 2)
        ELSE KthSmallest(nums, n \div 2) + KthSmallest(nums, n \div 2 + 1)

\* the raw values of column j of the catalog, as build_index extracted them
RawColumn(j) ==
    ColumnOf(Extract(self[1].df, self[1].config.feature_columns), j)

\* C19: in get_recommendations_by_features every column other than
\* danceability, energy, valence, tempo and tempo_normalized is filled, in
\* the vector that is then standardized, with the median of the column's raw
\* catalog values.
C19_FilledWithRawMedian ==
    ByFeatures =>
        \A j \in 1..Len(req.raw_query) :
            self[1].config.feature_columns[j] \notin AskedFeatures =>
                2 * req.raw_query[j] = TwiceMedian(RawColumn(j))

\* the display metadata of a recommendation
DisplayFields ==
    {"name", "artists", "popularity", "release_year", "danceability",
     "energy", "valence", "tempo", "similarity_score"}

\* C20: every recommendation either entry point returns carries name,
\* artist, popularity, release year, danceability, energy, valence, tempo
\* and the similarity score.
C20_FullDisplayMetadata ==
    req.pc = "returned" =>
        \A i \in 1..Len(Recs) : DisplayFields \subseteq DOMAIN Recs[i]

(***************************************************************************)
(* Claims about the loop of get_recommendations, under SpecRec.            *)
(***************************************************************************)
\* the candidate at position c passes the popularity and the year filter
Passes(c) ==
    /\ ~BelowPopularity(Candidate(c).popularity)
    /\ ~OutsideYears(Candidate(c).release_year)

\* the positions of the candidates the engine returned
Fetched == 1..Len(req.top_k_indices)

\* the artist of the seed track of the request
SeedArtist ==
    self[1].df[self[1].track_index.id_to_idx[StrKey(req.track_id)]].artists

\* C25: the list get_recommendations returns is in non-increasing order of
\* score and is a subsequence of the candidates the engine returned: its
\* entries are candidates, with the engine's scores, in the engine's order.
C25_RankedSubsequence ==
    req.pc = "returned" =>
        /\ \A i, j \in 1..Len(Recs) :
             i < j => ScoreLeq(Recs[j].similarity_score,
                               Recs[i].similarity_score)
        /\ \E f \in [1..Len(Recs) -> Fetched] :
             /\ \A i, j \in 1..Len(Recs) : i < j => f[i] < f[j]
             /\ \A i \in 1..Len(Recs) :
                  Recs[i] = Recommendation(Candidate(f[i]),
                                           req.top_k_scores[f[i]])

\* a call that returned two tracks of different scores, the candidate the
\* engine ranked first not being one of them
C25_Witness ==
    /\ req.pc = "returned"
    /\ Len(Recs) = 2
    /\ ScoreLess(Recs[2].similarity_score, Recs[1].similarity_score)
    /\ Len(req.top_k_indices) = 3
    /\ req.fates[1] # "accepted"

\* C26: with diversity_filter set, a candidate is passed over for its artist
\* only when an earlier candidate of that artist was accepted (one the
\* popularity or the year filter passed over does not count), and the track
\* returned for an artist is the first, in the engine's order, of the
\* fetched candidates of that artist that pass both filters.
C26_SeenOnlyWhenAccepted ==
    (req.pc = "returned" /\ req.diversity_filter) =>
        /\ \A c \in 1..Len(req.fates) :
             req.fates[c] = "artist" =>
                 \E b \in 1..(c - 1) :
                     /\ req.fates[b] = "accepted"
                     /\ Candidate(b).artists = Candidate(c).artists
        /\ \A i \in 1..Len(Recs) :
             \E c \in Fetched :
                 /\ Candidate(c).id = Recs[i].id
                 /\ Passes(c)
                 /\ \A b \in 1..(c - 1) :
                        Candidate(b).artists = Recs[i].artists => ~Passes(b)

\* a call with diversity_filter set in which a filter passed over a
\* candidate and a later candidate of the same artist, another track than
\* the seed, was returned
C26_Witness ==
    /\ req.pc = "returned"
    /\ req.diversity_filter
    /\ \E b, c \in 1..Len(req.fates) :
         /\ b < c
         /\ req.fates[b] \in {"popularity", "year"}
         /\ req.fates[c] = "accepted"
         /\ Candidate(b).artists = Candidate(c).artists
         /\ Candidate(c).id # req.track_id

\* C27: with diversity_filter off and n >= 1 the engine is asked for the n
\* highest-ranked rows and no more, the loop examines those alone, and when
\* the popularity or the year filter passes over one of them the call
\* returns fewer than n tracks, tracks ranked lower that pass or not.
C27_NoRefill ==
    (req.pc = "returned" /\ ~req.diversity_filter
                         /\ req.n_recommendations >= 1) =>
        /\ Len(req.top_k_indices) = Min(req.n_recommendations, CatalogSize)
        /\ Len(req.fates) <= req.n_recommendations
        /\ (\E c \in 1..Len(req.fates) :
                req.fates[c] \in {"popularity", "year"})
              => Len(Recs) < req.n_recommendations

\* a call for one track with diversity_filter off that returned nothing,
\* the one candidate having been passed over by a filter, while a track of
\* the catalog that is not the seed and was not fetched passes both filters
C27_Witness ==
    /\ req.pc = "returned"
    /\ ~req.diversity_filter
    /\ req.n_recommendations = 1
    /\ Recs = <<>>
    /\ req.fates \in {<<"popularity">>, <<"year">>}
    /\ \E r \in DOMAIN self[1].df :
         /\ self[1].df[r].id # req.track_id
         /\ \A c \in Fetched : req.top_k_indices[c] # r
         /\ ~BelowPopularity(self[1].df[r].popularity)
         /\ ~OutsideYears(self[1].df[r].release_year)

\* C28: the diversity filter takes no account of the seed's artist: with
\* diversity_filter set, the first candidate of the seed's artist that
\* passes both filters is accepted when the loop reaches it, so the call
\* can return a track of the seed's artist, and returns at most one.
C28_SeedArtistNotSeen ==
    (req.pc = "returned" /\ req.diversity_filter) =>
        /\ \A c \in 1..Len(req.fates) :
             (/\ Candidate(c).artists = SeedArtist
              /\ Passes(c)
              /\ \A b \in 1..(c - 1) :
                    Candidate(b).artists = SeedArtist => ~Passes(b))
                 => req.fates[c] = "accepted"
        /\ Cardinality({i \in 1..Len(Recs) :
                           Recs[i].artists = SeedArtist}) <= 1

\* a call with diversity_filter set that returned a track of the seed's
\* artist that is not the seed, and passed over a later one for its artist
C28_Witness ==
    /\ req.pc = "returned"
    /\ req.diversity_filter
    /\ \E i \in 1..Len(Recs) :
         /\ Recs[i].artists = SeedArtist
         /\ Recs[i].id # req.track_id
    /\ \E c \in 1..Len(req.fates) :
         /\ req.fates[c] = "artist"
         /\ Candidate(c).artists = SeedArtist

\* C29: n <= 0 is not refused.  With n = 0 the call returns an empty list.
\* With n < 0 the engine is asked for a negative k and returns all rows but
\* the last |k| of the ranking, and the call returns exactly one track, the
\* first candidate that passes the filters, when there is one, and none
\* otherwise.
C29_NonPositiveN ==
    (req.pc = "returned" /\ req.n_recommendations <= 0) =>
        /\ error = "none"
        /\ req.n_recommendations = 0 => Recs = <<>>
        /\ req.n_recommendations < 0 =>
               /\ req.k < 0
               /\ Len(req.top_k_indices) = Max(CatalogSize + req.k, 0)
               /\ IF \E c \in Fetched : Passes(c)
                  THEN LET first == CHOOSE c \in Fetched :
                                       /\ Passes(c)
                                       /\ \A b \in 1..(c - 1) : ~Passes(b)
                       IN  Recs = <<Recommendation(Candidate(first),
                                                   req.top_k_scores[first])>>
                  ELSE Recs = <<>>

\* a call with n = -1 for which the engine returned two of three rows and
\* which returned the second, a filter having passed over the first, the
\* track returned not being the seed
C29_Witness ==
    /\ req.pc = "returned"
    /\ req.n_recommendations = -1
    /\ Len(req.top_k_indices) = 2
    /\ req.fates = <<"popularity", "accepted">>
    /\ Len(Recs) = 1
    /\ Recs[1].id # req.track_id

(***************************************************************************)
(* Claims about the statistics save_index writes, under SpecStats.         *)
(***************************************************************************)
\* a step that is the last write of save_index, or its failure there
SaveConfigStep == saving = "index_saved" /\ saving' = "idle"

\* a step that is a build_index call that returned
BuildStep ==
    /\ saving = "idle"
    /\ saving' = "idle"
    /\ arg' # <<>>
    /\ loaded' = <<>>
    /\ error' = "none"

\* a step that is a load_index call that returned
LoadStep == saving = "idle" /\ loaded' # <<>>

\* C30: the statistics save_index writes are those the builder's scaler
\* holds when it is called, whatever matrix it is passed.  A build_index
\* that returns leaves in the scaler the statistics of its table, a
\* load_index that returns those of the configuration file; save_index
\* writes the scaler's mean_ and scale_ beside the shape of the matrix it
\* was passed; and on a builder that has neither built nor loaded it fails
\* and writes no configuration.
C30_StatsOfScalerAtSave ==
    [][/\ BuildStep =>
            scaler' = Fit(Extract(arg'[1].df, arg'[1].feature_columns),
                          Len(arg'[1].feature_columns))
       /\ LoadStep =>
            /\ scaler'.fitted
            /\ scaler'.mean_ = disk.config[1].scaler_mean
            /\ scaler'.scale_ = disk.config[1].scaler_scale
       /\ (SaveConfigStep /\ scaler.fitted) =>
            /\ error' = error
            /\ disk'.config # <<>>
            /\ disk'.config[1].scaler_mean = scaler.mean_
            /\ disk'.config[1].scaler_scale = scaler.scale_
            /\ disk'.config[1].n_tracks = NRows(built[1].feature_matrix)
            /\ disk'.matrix = <<built[1].feature_matrix>>
       /\ (SaveConfigStep /\ ~scaler.fitted) =>
            /\ error' = "AttributeError"
            /\ disk'.config = disk.config
       /\ ~(BuildStep \/ LoadStep) =>
            (scaler' = scaler \/ scaler' = Unfitted)]_vars

\* after build_index on one table, build_index on another and save_index
\* with the result of the first: the files hold the matrix of the first
\* table beside the statistics of the second, which are not its own
C30_Witness ==
    /\ saving = "idle"
    /\ built # <<>>
    /\ arg # <<>>
    /\ disk.config # <<>>
    /\ disk.matrix = <<built[1].feature_matrix>>
    /\ disk.config[1].scaler_mean = scaler.mean_
    /\ scaler = Fit(Extract(arg[1].df, arg[1].feature_columns),
                    Len(arg[1].feature_columns))
    /\ \E df \in IndexTables :
         /\ built[1] = BuildResult(df, built[1].feature_columns)
         /\ arg[1].feature_columns = built[1].feature_columns
         /\ Fit(Extract(df, built[1].feature_columns),
                Len(built[1].feature_columns)).mean_
                # disk.config[1].scaler_mean

(***************************************************************************)
(* Claims about apply_weights, under SpecWeights.                          *)
(***************************************************************************)
\* the weight the table holds for a name, as a pair <<n, d>>: n / d, and 1
\* for a name the table does not hold
Configured(name) ==
    IF name \in DOMAIN DefaultWeights
    THEN <<DefaultWeights[name].n, DefaultWeights[name].d>>
    ELSE <<1, 1>>

\* the entry y is the entry x times n / d: the signs agree and so do the
\* squares, an entry [num, rad] being num / sqrt(rad)
ScaledBy(y, x, n, d) ==
    /\ Sign(y.num) = Sign(x.num * n)
    /\ y.num * y.num * d * d * x.rad = x.num * x.num * n * n * y.rad

\* every entry of the matrix Y is the entry of X times the weight of its
\* column raised to the power e (1 or 2)
ColumnsScaled(Y, X, e) ==
    /\ DOMAIN Y = DOMAIN X
    /\ \A i \in DOMAIN X :
         /\ Len(Y[i]) = Len(X[i])
         /\ \A j \in 1..Len(X[i]) :
              LET w == Configured(wt.feature_names[j])
              IN  IF e = 1 THEN ScaledBy(Y[i][j], X[i][j], w[1], w[2])
                  ELSE ScaledBy(Y[i][j], X[i][j], w[1] * w[1], w[2] * w[2])

\* C23: apply_weights returns the matrix with each column multiplied by the
\* weight of its name, 1 for a name the weight table does not hold, leaves
\* the array it was passed as it was, and applied to its own result gives
\* each column multiplied by the square of its weight.
C23_WeightsScaleColumns ==
    /\ wt.pc \in {"once", "twice"} =>
           /\ ColumnsScaled(wt.once, wt.given, 1)
           /\ wt.feature_matrix = wt.given
    /\ wt.pc = "twice" => ColumnsScaled(wt.twice, wt.given, 2)

\* apply_weights applied twice to a matrix with a non-zero entry in a
\* column whose name has the weight 1.5 and one in a column whose name has
\* no weight
C23_Witness ==
    /\ wt.pc = "twice"
    /\ wt.feature_names = <<"acousticness", "loudness">>
    /\ \E i \in DOMAIN wt.given :
         /\ wt.given[i][1].num = -1
         /\ wt.given[i][2].num = 1
         /\ wt.twice[i][1] # wt.once[i][1]
         /\ wt.twice[i][2] = wt.given[i][2]

(***************************************************************************)
(* Claims about the three methods called one after the other, under        *)
(* SpecRepeat.                                                             *)
(***************************************************************************)
\* a step in which a method is called and returns or raises
CallStep == req.pc = "idle" /\ req'.pc # "idle"

\* C21: once the recommender is constructed, no call of get_recommendations,
\* get_recommendations_by_features or find_track_by_name changes the
\* feature matrix, the weighted matrix, the id index, the configuration,
\* the metadata table or the scaler's statistics, and a call with the
\* arguments of an earlier call gives the result the earlier call gave.
C21_ReadOnlyAndRepeatable ==
    [][/\ self' = self
       /\ scaler' = scaler
       /\ disk' = disk
       /\ (CallStep /\ log # <<>> /\ CallOf(req') = log[1].call)
             => ResultOf(req', error') = log[1].result]_vars

\* a call by seed that returns two tracks of equal score, made again after
\* the caller noted it and its result
C21_Witness ==
    /\ log # <<>>
    /\ req.pc = "returned"
    /\ req.track_id # ""
    /\ CallOf(req) = log[1].call
    /\ Len(Recs) = 2
    /\ Recs[1].similarity_score = Recs[2].similarity_score
    /\ Recs[1].id # req.track_id
    /\ Recs[2].id # req.track_id

(***************************************************************************)
(* Claims about requests running at once, under SpecConc.                  *)
(***************************************************************************)
\* what get_recommendations returns for the call when it runs alone
AloneSeed(call) ==
    IF StrKey(call.track_id) \notin DOMAIN self[1].track_index.id_to_idx
    THEN {[error |-> "ValueError", result |-> <<>>]}
    ELSE LET track_idx ==
                 self[1].track_index.id_to_idx[StrKey(call.track_id)]
             seed == Get(self[1].df[track_idx], "artists", "Unknown")
         IN  {[error  |-> "none",
               result |-> Walk(self[1].df, call, top, 1, <<>>,
                               InitialSeen(seed), <<>>).recommendations] :
                top \in get_top_k_similar(
                            self[1].weighted_feature_matrix[track_idx],
                            self[1].weighted_feature_matrix,
                            RequestedK(call, self[1].feature_matrix),
                            {track_idx})}

\* what get_recommendations_by_features returns for the call when it runs
\* alone
AloneFeatures(call) ==
    LET feature_names == self[1].config.feature_columns
        raw_query     == RawQuery(feature_names, call, self[1].feature_matrix)
    IN  {[error  |-> "none",
          result |-> FeatureRecommendations(self[1].df, top)] :
            top \in get_top_k_similar(
                        FeatureQuery(raw_query, scaler, feature_names),
                        self[1].weighted_feature_matrix,
                        call.n_recommendations, {})}

\* C22: whatever the interleaving of two requests made at once on one
\* recommender, with no lock, each returns what it returns when it runs
\* alone (a result the call can give alone, the order of rows of equal
\* score being the sort's): the -1 one request writes over its seed's
\* score is in no score the other request ranks.
C22_AsIfAlone ==
    \A t \in Threads :
        conc.threads[t].pc = "done" =>
            [error |-> conc.threads[t].error,
             result |-> conc.threads[t].result]
                \in IF conc.threads[t].kind = "seed"
                    THEN AloneSeed(conc.threads[t].call[1])
                    ELSE AloneFeatures(conc.threads[t].call[1])

\* two requests by seed, on different seeds, each of which overwrote its
\* seed's score while the other was between its compute and its sort, and
\* each of which returned the other's seed with a score that is not -1
C22_Witness ==
    /\ \A t \in Threads :
         /\ conc.threads[t].pc = "done"
         /\ conc.threads[t].kind = "seed"
         /\ conc.threads[t].met
    /\ conc.threads[1].call # conc.threads[2].call
    /\ \A t \in Threads :
         \E i \in 1..Len(conc.threads[t].result) :
             /\ conc.threads[t].result[i].id
                    = conc.threads[Other(t)].call[1].track_id
             /\ conc.threads[t].result[i].similarity_score # MinusOne

====
